---- MODULE Spec2Model ----
(***************************************************************************)
(* Model of the timelapse viewer component App (src/src/App.tsx).          *)
(*                                                                         *)
(* The React state of the component (useState cells and useRef cells) is   *)
(* the model's state, together with the browser's table of armed           *)
(* intervals, the HTTP calls in flight, and the set of useEffect hooks     *)
(* whose dependencies changed in a commit and that have not run yet.       *)
(* A user event handler, a timer callback or a fetch continuation is one   *)
(* action.  React runs the effects of a commit caused by a discrete user   *)
(* event (a click, a key) synchronously at the end of that event, so a     *)
(* user event's action includes the effects it causes.  The effects of     *)
(* any other commit (the mount, a fetch continuation, a pointer move of a  *)
(* Slider drag) run later, in the action FlushEffects, and at the latest   *)
(* before the next user event.                                             *)
(*                                                                         *)
(* Time is the passing of periods: an armed interval fires only after its  *)
(* period has elapsed since it was armed or since it fired last.           *)
(*                                                                         *)
(* Frames are numbered by capture order; the listing endpoint returns     *)
(* them newest first.  playbackSpeed is kept in half frames per second     *)
(* (the Slider's step), so 2 stands for 1 fps.                             *)
(***************************************************************************)
EXTENDS Integers, Sequences, FiniteSets, TLC

VARIABLES
    images,              \* useState<Image[]>([])
    loading,             \* useState(true)
    error,               \* useState<string | null>(null)
    viewMode,            \* useState('gallery')
    playbackSpeed,       \* useState(1), in half fps
    isPlaying,           \* useState(false)
    currentImageIndex,   \* useState(0)
    liveImage,           \* useState<Image | null>(null)
    liveIntervalRef,     \* useRef(null).current
    playbackIntervalRef, \* useRef(null).current
    intervals,           \* intervals armed by setInterval and not cleared
    imagesCalls,         \* number of fetchImages calls awaiting their answer
    liveCalls,           \* number of fetchLiveImage calls awaiting theirs
    liveOvertaken,       \* how many of them, the oldest, a later one overtook
    pendingEffects,      \* useEffect hooks scheduled by a commit, not yet run
    lastOp               \* history: the handler or continuation that ran last

vars == <<images, loading, error, viewMode, playbackSpeed, isPlaying,
          currentImageIndex, liveImage, liveIntervalRef, playbackIntervalRef,
          intervals, imagesCalls, liveCalls, liveOvertaken, pendingEffects,
          lastOp>>

\* The fetchLiveImage calls in flight, numbered 1..liveCalls in the order
\* they were issued; calls 1..liveOvertaken are those issued before a call
\* that has been answered already.
liveCallState == <<liveCalls, liveOvertaken>>

reactState == <<images, loading, error, viewMode, playbackSpeed, isPlaying,
                currentImageIndex, liveImage>>

timerState == <<liveIntervalRef, playbackIntervalRef, intervals>>

----------------------------------------------------------------------------
(* Bounds of the model *)

MaxFrames == 3          \* longest listing the server returns
MaxLiveFrames == 2      \* distinct frames the latest endpoint returns
MaxLiveInFlight == 2    \* fetchLiveImage calls in flight at once
MaxImagesInFlight == 2  \* fetchImages calls in flight at once
MaxTimers == 3          \* interval ids in use at once

(* Program constants *)

NoImage == 0            \* liveImage = null
NoTimer == 0            \* ref.current = null
LiveRefreshMs == 5000
InitialSpeed == 2       \* useState(1): 1 fps
MinSpeed == 1           \* Slider min={0.5}
MaxSpeed == 20          \* Slider max={10}

Null == "null"
Modes == {"gallery", "timeline", "live"}
Effects == {"mount", "live", "playback"}

\* The playback rates the model's user picks on the speed Slider.
SpeedChoices == {MinSpeed, InitialSpeed, MaxSpeed}

Max(a, b) == IF a >= b THEN a ELSE b
Min(a, b) == IF a <= b THEN a ELSE b

\* The listing endpoint's answer when n frames were captured, newest first.
Listing(n) == [i \in 1..n |-> n + 1 - i]
Listings == {Listing(n) : n \in 0..MaxFrames}
LiveFrames == 1..MaxLiveFrames

----------------------------------------------------------------------------
(* Pure parts of the handlers *)

\* TickNext as it would be if playback stopped at the last frame.
TickNextStopAtEnd(prevIndex, len) ==
    IF prevIndex >= len - 1 THEN prevIndex ELSE prevIndex + 1

\* The updater of the playback interval callback; len is images.length as
\* the callback's closure captured it.
TickNext(prevIndex, len) == IF prevIndex >= len - 1 THEN 0 ELSE prevIndex + 1

\* StepBackIndex as it would be with the Next button's increment.
StepBackIndexForward(prev) == Max(0, prev + 1)

\* Previous button: Math.max(0, prev - 1)
StepBackIndex(prev) == Max(0, prev - 1)

\* Next button: Math.min(images.length - 1, prev + 1)
StepForwardIndex(prev, len) == Min(len - 1, prev + 1)

\* LastIndex as it would be with the length taken for the last index.
LastIndexOffByOne(len) == len

\* Last button: images.length - 1
LastIndex(len) == len - 1

\* The value a Slider with the given min and max reports for a requested
\* position: a position inside [min, max].
SliderValue(requested, min, max) == Max(min, Min(max, requested))

\* ErrorMessage as it would be if the catch block set no message.
ErrorMessageNone(st) == Null

\* The message fetchImages sets for a failure: an Error thrown for a
\* response that is not ok, or the Error fetch itself rejects with.
ErrorMessage(st) ==
    IF st = "http" THEN "Failed to load images. Server returned 500"
    ELSE "Failed to load images. Failed to fetch"

\* fetchImages on success: setImages(data)
ImagesAfterLoad(prev, data) == data

\* IndexAfterLoad as it would be if the most recent frame were taken to be
\* the last of the listing.
IndexAfterLoadLast(prevIndex, data) ==
    IF Len(data) > 0 THEN Len(data) - 1 ELSE prevIndex

\* fetchImages on success: if (data.length > 0) setCurrentImageIndex(0)
IndexAfterLoad(prevIndex, data) == IF Len(data) > 0 THEN 0 ELSE prevIndex

\* LiveImageAfterLoad as it would be if only a missing frame were set.
LiveImageAfterLoadOnce(prev, data) == IF prev = NoImage THEN data ELSE prev

\* fetchLiveImage on success: setLiveImage(data)
LiveImageAfterLoad(prev, data) == data

\* PlaybackCondition as it would be without the test of isPlaying.
PlaybackConditionNoPlaying(playing, mode) == mode = "timeline"

\* PlaybackCondition as it would be without the test of the view mode.
PlaybackConditionNoMode(playing, mode) == playing

\* The condition under which the playback effect arms its interval.
PlaybackCondition(playing, mode) == playing /\ mode = "timeline"

\* LiveCondition as it would be if it only excluded the gallery.
LiveConditionNotGallery(mode) == mode # "gallery"

\* The condition under which the live effect arms its interval.
LiveCondition(mode) == mode = "live"

\* The period of the playback interval, 1000 / playbackSpeed ms.
PlaybackPeriod(speed) == 2000 \div speed

\* TabsRendered as it would be without the early returns of the render.
TabsRenderedAlways == TRUE

\* TabsRendered as it would be with the early return for loading alone.
TabsRenderedNotLoading == ~loading

\* The component renders the Tabs only with a non-empty store; before that
\* it renders the loading, error or empty card.
TabsRendered == images # <<>>

\* The error card with the Retry button is rendered.
RetryRendered == ~(loading /\ images = <<>>) /\ error # Null /\ images = <<>>

----------------------------------------------------------------------------
(* The browser's interval table *)

ClearInterval(tbl, id) == {t \in tbl : t.id # id}

\* The ids in use when a ref is assigned setInterval's return value: those
\* of the armed intervals and the one the other ref holds.
UsedIds(tbl, otherRef) == {t.id : t \in tbl} \cup {otherRef}

CanArm(tbl, otherRef) == \E id \in 1..MaxTimers : id \notin UsedIds(tbl, otherRef)

\* setInterval returns an id that is not in use.
FreshId(tbl, otherRef) ==
    CHOOSE id \in 1..MaxTimers :
        /\ id \notin UsedIds(tbl, otherRef)
        /\ \A j \in 1..MaxTimers : j \notin UsedIds(tbl, otherRef) => id <= j

----------------------------------------------------------------------------
Init ==
    /\ images = <<>>
    /\ loading = TRUE
    /\ error = Null
    /\ viewMode = "gallery"
    /\ playbackSpeed = InitialSpeed
    /\ isPlaying = FALSE
    /\ currentImageIndex = 0
    /\ liveImage = NoImage
    /\ liveIntervalRef = NoTimer
    /\ playbackIntervalRef = NoTimer
    /\ intervals = {}
    /\ imagesCalls = 0
    /\ liveCalls = 0
    /\ liveOvertaken = 0
    /\ pendingEffects = Effects
    /\ lastOp = "init"

\* The effects a commit schedules: those with a dependency that changed.
\* The live effect depends on [viewMode]; the playback effect on
\* [isPlaying, playbackSpeed, images.length, viewMode].
LiveDeps == <<viewMode>>

\* PlaybackDeps as it would be with isPlaying missing from the list.
PlaybackDepsNoPlaying == <<playbackSpeed, Len(images), viewMode>>

\* PlaybackDeps as it would be with viewMode missing from the list.
PlaybackDepsNoMode == <<isPlaying, playbackSpeed, Len(images)>>

\* PlaybackDeps as it would be with playbackSpeed missing from the list.
PlaybackDepsNoSpeed == <<isPlaying, Len(images), viewMode>>

PlaybackDeps == <<isPlaying, playbackSpeed, Len(images), viewMode>>

ChangedEffects ==
    (IF LiveDeps' # LiveDeps THEN {"live"} ELSE {})
        \cup (IF PlaybackDeps' # PlaybackDeps THEN {"playback"} ELSE {})

----------------------------------------------------------------------------
(* useEffect hooks *)

\* EffectCleanup as it would be if the effects returned no cleanup.
EffectCleanupNone(tbl, ref) == tbl

\* The cleanup an effect returns: if (ref.current) clearInterval(ref.current)
EffectCleanup(tbl, ref) == IF ref # NoTimer THEN ClearInterval(tbl, ref) ELSE tbl

\* The else branch of an effect body: else if (ref.current) clearInterval(...)
EffectElse(tbl, ref) == IF ref # NoTimer THEN ClearInterval(tbl, ref) ELSE tbl

\* An interval armed by setInterval: its id, the callback (kind, and the
\* images.length the playback callback closes over), its period, and whether
\* the period has elapsed since it was armed or fired last.
LiveInterval(id) ==
    [id |-> id, kind |-> "live", len |-> 0, ms |-> LiveRefreshMs,
     elapsed |-> FALSE]

\* PlaybackInterval as it would be if the new interval took over the phase
\* of the one armed before it.
PlaybackIntervalKeepPhase(id, len, speed) ==
    [id |-> id, kind |-> "playback", len |-> len, ms |-> PlaybackPeriod(speed),
     elapsed |-> \E t \in intervals : t.kind = "playback" /\ t.elapsed]

\* The playback interval's callback closes over images.length of the render
\* that ran the effect.
PlaybackInterval(id, len, speed) ==
    [id |-> id, kind |-> "playback", len |-> len, ms |-> PlaybackPeriod(speed),
     elapsed |-> FALSE]

\* FetchImagesStart as it would be without setLoading(true).
FetchImagesStartNoLoading ==
    /\ imagesCalls < MaxImagesInFlight
    /\ loading' = loading
    /\ error' = Null
    /\ imagesCalls' = imagesCalls + 1

\* FetchImagesStart as it would be without setError(null).
FetchImagesStartKeepError ==
    /\ imagesCalls < MaxImagesInFlight
    /\ loading' = TRUE
    /\ error' = error
    /\ imagesCalls' = imagesCalls + 1

\* fetchImages() up to its await: setLoading(true), setError(null), fetch.
FetchImagesStart ==
    /\ imagesCalls < MaxImagesInFlight
    /\ loading' = TRUE
    /\ error' = Null
    /\ imagesCalls' = imagesCalls + 1

\* fetchLiveImage() up to its await: fetch.
FetchLiveImageStart ==
    /\ liveCalls < MaxLiveInFlight
    /\ liveCalls' = liveCalls + 1
    /\ liveOvertaken' = liveOvertaken

\* The call numbered `call` is answered: it leaves the calls in flight, and
\* the calls issued before it are overtaken.
FetchLiveImageEnd(call) ==
    /\ call \in 1..liveCalls
    /\ liveCalls' = liveCalls - 1
    /\ liveOvertaken' =
           IF call <= liveOvertaken THEN liveOvertaken - 1 ELSE call - 1

\* What running the effects in `run` does to the interval table and the
\* refs, in the render with the given state: first the cleanups of the
\* effects that run again, then their bodies in the order of declaration.
EffectsAfter(run, mode, playing, speed, len) ==
    LET runLive == "live" \in run
        runPlay == "playback" \in run
        armLive == runLive /\ LiveCondition(mode)
        armPlay == runPlay /\ PlaybackCondition(playing, mode)
        t1 == IF runLive THEN EffectCleanup(intervals, liveIntervalRef)
              ELSE intervals
        t2 == IF runPlay THEN EffectCleanup(t1, playbackIntervalRef) ELSE t1
        liveRef == IF armLive THEN FreshId(t2, playbackIntervalRef)
                   ELSE liveIntervalRef
        t3 == CASE armLive -> t2 \cup {LiveInterval(liveRef)}
                [] runLive /\ ~armLive -> EffectElse(t2, liveIntervalRef)
                [] OTHER -> t2
        playRef == IF armPlay THEN FreshId(t3, liveRef)
                   ELSE playbackIntervalRef
        t4 == CASE armPlay -> t3 \cup {PlaybackInterval(playRef, len, speed)}
                [] runPlay /\ ~armPlay -> EffectElse(t3, playbackIntervalRef)
                [] OTHER -> t3
    IN  [intervals |-> t4,
         liveRef |-> liveRef,
         playRef |-> playRef,
         fetchLive |-> armLive,
         canArm |-> /\ armLive => CanArm(t2, playbackIntervalRef)
                    /\ armPlay => CanArm(t3, liveRef)]

\* The effects in `run`, run in the render this step commits.
RunEffects(run) ==
    LET r == EffectsAfter(run, viewMode', isPlaying', playbackSpeed',
                          Len(images'))
    IN  /\ r.canArm
        /\ intervals' = r.intervals
        /\ liveIntervalRef' = r.liveRef
        /\ playbackIntervalRef' = r.playRef
        \* the live effect's body calls fetchLiveImage() before it arms
        /\ IF r.fetchLive THEN FetchLiveImageStart
                          ELSE UNCHANGED liveCallState

\* The effects left pending by the mount or by a fetch continuation.
FlushEffects ==
    /\ pendingEffects # {}
    /\ UNCHANGED <<images, viewMode, playbackSpeed, isPlaying,
                   currentImageIndex, liveImage>>
    \* mount effect: fetchImages()
    /\ IF "mount" \in pendingEffects
       THEN FetchImagesStart
       ELSE UNCHANGED <<loading, error, imagesCalls>>
    /\ RunEffects(pendingEffects)
    /\ pendingEffects' = {}
    /\ lastOp' = "flushEffects"

----------------------------------------------------------------------------
(* Timer callbacks *)

\* The period of the armed interval t elapses: t.ms milliseconds have passed
\* since it was armed or fired last, and its callback is due.
PeriodElapses(t) ==
    /\ t \in intervals
    /\ ~t.elapsed
    /\ intervals' = (intervals \ {t}) \cup {[t EXCEPT !.elapsed = TRUE]}
    /\ lastOp' = "periodElapses"
    /\ UNCHANGED <<reactState, liveIntervalRef, playbackIntervalRef,
                   imagesCalls, liveCallState, pendingEffects>>

\* The interval table after t fired: t stays armed and its next period
\* starts.
Fired(tbl, t) == (tbl \ {t}) \cup {[t EXCEPT !.elapsed = FALSE]}

\* The playback interval t fires: setCurrentImageIndex(prevIndex => ...).
PlaybackTick(t) ==
    /\ t \in intervals
    /\ t.kind = "playback"
    /\ t.elapsed
    /\ intervals' = Fired(intervals, t)
    /\ currentImageIndex' = TickNext(currentImageIndex, t.len)
    /\ lastOp' = "playbackTick"
    /\ UNCHANGED <<images, loading, error, viewMode, playbackSpeed, isPlaying,
                   liveImage, liveIntervalRef, playbackIntervalRef,
                   imagesCalls, liveCallState, pendingEffects>>

\* The live interval t fires: fetchLiveImage().
LiveTick(t) ==
    /\ t \in intervals
    /\ t.kind = "live"
    /\ t.elapsed
    /\ intervals' = Fired(intervals, t)
    /\ FetchLiveImageStart
    /\ lastOp' = "liveTick"
    /\ UNCHANGED <<reactState, liveIntervalRef, playbackIntervalRef,
                   imagesCalls, pendingEffects>>

----------------------------------------------------------------------------
(* Fetch continuations.  The image service's answer is the input: 200 with *)
(* a body, a status that is not ok ("http"), or a rejected fetch ("net").  *)

Failures == {"http", "net"}

\* fetchImages after its awaits, answered 200 with the listing data:
\* setImages(data), the cursor reset, finally setLoading(false).
FetchImagesOk(data) ==
    /\ imagesCalls > 0
    /\ imagesCalls' = imagesCalls - 1
    /\ images' = ImagesAfterLoad(images, data)
    /\ currentImageIndex' = IndexAfterLoad(currentImageIndex, data)
    /\ loading' = FALSE
    /\ lastOp' = "fetchImagesOk"
    /\ UNCHANGED <<error, viewMode, playbackSpeed, isPlaying, liveImage,
                   timerState, liveCallState>>
    /\ pendingEffects' = pendingEffects \cup ChangedEffects

\* fetchImages after its await, failed: the catch block's setError, finally
\* setLoading(false).
FetchImagesFailed(st) ==
    /\ imagesCalls > 0
    /\ imagesCalls' = imagesCalls - 1
    /\ error' = ErrorMessage(st)
    /\ loading' = FALSE
    /\ lastOp' = "fetchImagesFailed"
    /\ UNCHANGED <<images, currentImageIndex, viewMode, playbackSpeed,
                   isPlaying, liveImage, timerState, liveCallState,
                   pendingEffects>>

\* FetchLiveImageOk as it would be if the answer of an overtaken call were
\* dropped, so that the call issued last decided the Live Frame.
FetchLiveImageOkDropLate(data) ==
    /\ \E call \in 1..liveCalls :
           /\ FetchLiveImageEnd(call)
           /\ lastOp' = IF call <= liveOvertaken THEN "fetchLiveImageOkLate"
                                                 ELSE "fetchLiveImageOk"
           /\ liveImage' = IF call <= liveOvertaken THEN liveImage
                           ELSE LiveImageAfterLoad(liveImage, data)
    /\ UNCHANGED <<images, loading, error, viewMode, playbackSpeed, isPlaying,
                   currentImageIndex, timerState, imagesCalls, pendingEffects>>

\* fetchLiveImage after its awaits, answered 200 with the frame data.  The
\* answer may be that of any call in flight; lastOp records whether the
\* call was an overtaken one.
FetchLiveImageOk(data) ==
    /\ \E call \in 1..liveCalls :
           /\ FetchLiveImageEnd(call)
           /\ lastOp' = IF call <= liveOvertaken THEN "fetchLiveImageOkLate"
                                                 ELSE "fetchLiveImageOk"
    /\ liveImage' = LiveImageAfterLoad(liveImage, data)
    /\ UNCHANGED <<images, loading, error, viewMode, playbackSpeed, isPlaying,
                   currentImageIndex, timerState, imagesCalls, pendingEffects>>

\* fetchLiveImage after its await, failed: the catch block logs.
FetchLiveImageFailed(st) ==
    /\ \E call \in 1..liveCalls : FetchLiveImageEnd(call)
    /\ lastOp' = "fetchLiveImageFailed"
    /\ UNCHANGED <<reactState, timerState, imagesCalls, pendingEffects>>

----------------------------------------------------------------------------
(* User events.  React runs the pending effects before it handles one,  *)
(* and the effects the event causes at its end.                         *)

\* The Retry button of the error card: fetchImages().
Retry ==
    /\ pendingEffects = {}
    /\ RetryRendered
    /\ FetchImagesStart
    /\ lastOp' = "retry"
    /\ UNCHANGED <<images, viewMode, playbackSpeed, isPlaying,
                   currentImageIndex, liveImage, timerState, liveCallState,
                   pendingEffects>>

\* A tab trigger: onValueChange={setViewMode}, fired for another tab.
SetViewMode(m) ==
    /\ pendingEffects = {}
    /\ TabsRendered
    /\ m # viewMode
    /\ viewMode' = m
    /\ lastOp' = "setViewMode"
    /\ UNCHANGED <<images, loading, error, playbackSpeed, isPlaying,
                   currentImageIndex, liveImage, imagesCalls, pendingEffects>>
    /\ RunEffects(ChangedEffects)

\* GalleryClick as it would be with the one-based number of the image's
\* alt text for the index.
GalleryClickOneBased(index) ==
    /\ pendingEffects = {}
    /\ TabsRendered
    /\ viewMode = "gallery"
    /\ index \in 0..(Len(images) - 1)
    /\ currentImageIndex' = index + 1
    /\ viewMode' = "timeline"
    /\ lastOp' = "galleryClick"
    /\ UNCHANGED <<images, loading, error, playbackSpeed, isPlaying,
                   liveImage, imagesCalls, pendingEffects>>
    /\ RunEffects(ChangedEffects)

\* A gallery image's onClick: setCurrentImageIndex(index),
\* setViewMode('timeline').
GalleryClick(index) ==
    /\ pendingEffects = {}
    /\ TabsRendered
    /\ viewMode = "gallery"
    /\ index \in 0..(Len(images) - 1)
    /\ currentImageIndex' = index
    /\ viewMode' = "timeline"
    /\ lastOp' = "galleryClick"
    /\ UNCHANGED <<images, loading, error, playbackSpeed, isPlaying,
                   liveImage, imagesCalls, pendingEffects>>
    /\ RunEffects(ChangedEffects)

\* The controls of the timeline tab are rendered.
TimelineRendered == TabsRendered /\ viewMode = "timeline"

\* A handler of the timeline tab that sets the cursor and nothing else.
SetIndex(op, index) ==
    /\ pendingEffects = {}
    /\ TimelineRendered
    /\ currentImageIndex' = index
    /\ lastOp' = op
    /\ UNCHANGED <<images, loading, error, viewMode, playbackSpeed, isPlaying,
                   liveImage, timerState, imagesCalls, liveCallState,
                   pendingEffects>>

\* First button
JumpFirst == SetIndex("jumpFirst", 0)

\* Previous button, disabled at the first frame
StepBack ==
    /\ currentImageIndex # 0
    /\ SetIndex("stepBack", StepBackIndex(currentImageIndex))

\* Next button, disabled at the last frame
StepForward ==
    /\ currentImageIndex # Len(images) - 1
    /\ SetIndex("stepForward", StepForwardIndex(currentImageIndex, Len(images)))

\* Last button
JumpLast == SetIndex("jumpLast", LastIndex(Len(images)))

\* The seek Slider, min 0 and max images.length - 1, moved to a position.
Seek(requested) ==
    SetIndex("seek", SliderValue(requested, 0, Len(images) - 1))

\* Play / Pause button: togglePlayback
TogglePlayback ==
    /\ pendingEffects = {}
    /\ TimelineRendered
    /\ isPlaying' = ~isPlaying
    /\ lastOp' = "togglePlayback"
    /\ UNCHANGED <<images, loading, error, viewMode, playbackSpeed,
                   currentImageIndex, liveImage, imagesCalls, pendingEffects>>
    /\ RunEffects(ChangedEffects)

\* The speed Slider: setPlaybackSpeed(values[0]).  The Slider reports a
\* value on a key press or a pointer press, which are discrete events, and
\* on the pointer moves of a drag, which are not: after one of those React
\* runs the effects later, so the playback effect is left pending and the
\* interval armed for the old speed can still fire before it is cleared.
SetPlaybackSpeed(speed, drag) ==
    /\ pendingEffects = {}
    /\ TimelineRendered
    /\ playbackSpeed' = SliderValue(speed, MinSpeed, MaxSpeed)
    /\ lastOp' = "setPlaybackSpeed"
    /\ UNCHANGED <<images, loading, error, viewMode, isPlaying,
                   currentImageIndex, liveImage, imagesCalls>>
    /\ IF drag
       THEN /\ pendingEffects' = ChangedEffects
            /\ UNCHANGED <<timerState, liveCallState>>
       ELSE /\ pendingEffects' = {}
            /\ RunEffects(ChangedEffects)

\* Refresh Now button of the live tab: fetchLiveImage
RefreshNow ==
    /\ pendingEffects = {}
    /\ TabsRendered
    /\ viewMode = "live"
    /\ FetchLiveImageStart
    /\ lastOp' = "refreshNow"
    /\ UNCHANGED <<reactState, timerState, imagesCalls, pendingEffects>>

----------------------------------------------------------------------------
\* Positions the model's user asks the seek Slider for, some outside it.
SeekRequests == (0 - 1)..(MaxFrames + 1)

Next ==
    \/ FlushEffects
    \/ \E t \in intervals : PeriodElapses(t)
    \/ \E t \in intervals : PlaybackTick(t)
    \/ \E t \in intervals : LiveTick(t)
    \/ \E data \in Listings : FetchImagesOk(data)
    \/ \E st \in Failures : FetchImagesFailed(st)
    \/ \E data \in LiveFrames : FetchLiveImageOk(data)
    \/ \E st \in Failures : FetchLiveImageFailed(st)
    \/ Retry
    \/ \E m \in Modes : SetViewMode(m)
    \/ \E index \in 0..(MaxFrames - 1) : GalleryClick(index)
    \/ JumpFirst
    \/ StepBack
    \/ StepForward
    \/ JumpLast
    \/ \E r \in SeekRequests : Seek(r)
    \/ TogglePlayback
    \/ \E s \in SpeedChoices, drag \in BOOLEAN : SetPlaybackSpeed(s, drag)
    \/ RefreshNow

Spec == Init /\ [][Next]_vars

----------------------------------------------------------------------------
(* Properties *)

\* The Scheduler is running: a playback interval is armed.
SchedulerRunning == \E t \in intervals : t.kind = "playback"

\* The Poller is running: a live interval is armed.
PollerRunning == \E t \in intervals : t.kind = "live"

\* C1: whenever the Frame Store is non-empty the Cursor is an index of it,
\* 0 <= currentImageIndex <= length - 1, whatever handlers, ticks and loads
\* have run.
C1_CursorInRange ==
    images # <<>> => currentImageIndex \in 0..(Len(images) - 1)

\* A playback tick has brought the Cursor to the last frame of a store of
\* three or more frames.
C1_Witness ==
    /\ lastOp = "playbackTick"
    /\ Len(images) >= 3
    /\ currentImageIndex = Len(images) - 1

\* C2: a successful fetchImages sets the Frame Store to the listing the
\* server answered, and with a non-empty listing the Cursor is 0 in the
\* state that shows the new store.
C2_LoadReplacesAndResets ==
    [][\A data \in Listings :
          FetchImagesOk(data) =>
              /\ images' = data
              /\ (data # <<>> => currentImageIndex' = 0)]_vars

\* A load has just populated the store with three frames.
C2_Witness ==
    /\ lastOp = "fetchImagesOk"
    /\ Len(images) = 3
    /\ currentImageIndex = 0

\* C3: a failed fetchImages, for a status that is not ok as for a rejected
\* fetch, leaves the Frame Store and the Cursor as they were and sets a
\* non-empty error message; Retry clears the error, and a load that then
\* succeeds ends with the error null and the store set to the listing.
C3_FailureKeepsStore ==
    [][/\ \A st \in Failures :
             FetchImagesFailed(st) =>
                 /\ images' = images
                 /\ currentImageIndex' = currentImageIndex
                 /\ error' \notin {Null, ""}
                 /\ loading' = FALSE
       /\ Retry => error' = Null /\ images' = images
       /\ \A data \in Listings :
             FetchImagesOk(data) => error' = Null /\ images' = data]_vars

\* A load has just failed with no prior frames: the store is empty and the
\* error is set.
C3_Witness ==
    /\ lastOp = "fetchImagesFailed"
    /\ images = <<>>
    /\ error \notin {Null, ""}
    /\ ~loading

\* C4: a Scheduler tick sets the Cursor to (cursor + 1) mod length, and
\* after it the interval that ticked is still armed, for its next period,
\* with isPlaying and mode = timeline.
C4_TickAdvancesModulo ==
    [][\A t \in intervals :
          PlaybackTick(t) =>
              /\ currentImageIndex' = (currentImageIndex + 1) % Len(images)
              /\ Fired({t}, t) \subseteq intervals'
              /\ PlaybackCondition(isPlaying', viewMode')]_vars

\* A tick has wrapped the Cursor of a three-frame store from 2 to 0.
C4_Witness ==
    /\ lastOp = "playbackTick"
    /\ Len(images) = 3
    /\ currentImageIndex = 0
    /\ SchedulerRunning

\* C5 as stated: once mode has left timeline with playing = true, the
\* Cursor never changes again.  The states with isPlaying and another mode
\* than timeline are the states that transition leads to (isPlaying is
\* toggled in timeline only), so no step from one of them changes the
\* Cursor.
C5_Original ==
    [][(isPlaying /\ viewMode # "timeline")
          => currentImageIndex' = currentImageIndex]_vars

\* C5 as amended: while mode is not timeline the Scheduler is not armed and
\* no tick occurs; the only step that changes the Cursor there is a gallery
\* selection.
C5_NoTickOutsideTimeline ==
    [][viewMode # "timeline" =>
          /\ ~SchedulerRunning
          /\ \A t \in intervals : ~PlaybackTick(t)
          /\ (currentImageIndex' # currentImageIndex =>
                \E index \in 0..(MaxFrames - 1) : GalleryClick(index))]_vars

\* Mode has just left timeline with playing = true, and the Scheduler is
\* stopped.
C5_Witness ==
    /\ lastOp = "setViewMode"
    /\ isPlaying
    /\ viewMode # "timeline"
    /\ ~SchedulerRunning

\* C6: the Scheduler starts stopped, and in every state with no effect
\* pending it is running exactly if isPlaying and mode = timeline; a step
\* that re-enters timeline with isPlaying still true arms it.
C6_ArmedIffPlayingInTimeline ==
    /\ ~SchedulerRunning
    /\ [][/\ pendingEffects' = {} =>
                (SchedulerRunning' <=> (isPlaying' /\ viewMode' = "timeline"))
          /\ (viewMode # "timeline" /\ viewMode' = "timeline" /\ isPlaying)
                => (~SchedulerRunning /\ SchedulerRunning' /\ isPlaying')]_vars

\* Mode has just re-entered timeline by its tab with isPlaying still true,
\* and the Scheduler is running.
C6_Witness ==
    /\ lastOp = "setViewMode"
    /\ viewMode = "timeline"
    /\ isPlaying
    /\ SchedulerRunning
    /\ pendingEffects = {}

\* The live intervals armed.
LiveIntervals == {t \in intervals : t.kind = "live"}

\* C7: a step in which mode becomes live issues exactly one fetchLiveImage
\* and leaves exactly one live interval armed; a tick of that interval
\* issues one more; a fetchLiveImage is issued only in a step that ends in
\* mode live, and outside live no live interval is armed.
C7_PollerFollowsLiveMode ==
    [][/\ (viewMode # "live" /\ viewMode' = "live") =>
              /\ liveCalls' = liveCalls + 1
              /\ LiveIntervals = {}
              /\ Cardinality(LiveIntervals') = 1
       /\ \A t \in intervals :
              LiveTick(t) => liveCalls' = liveCalls + 1 /\ viewMode = "live"
       /\ liveCalls' > liveCalls => viewMode' = "live"
       /\ viewMode' # "live" => LiveIntervals' = {}]_vars

\* Mode has just re-entered live (a frame fetched in an earlier stay is
\* shown): the immediate fetch is in flight and the Poller is running.
C7_Witness ==
    /\ lastOp = "setViewMode"
    /\ viewMode = "live"
    /\ liveImage # NoImage
    /\ liveCalls = 1
    /\ PollerRunning

\* C8: a gallery selection of index i sets the Cursor to i and mode to
\* timeline in one step, and leaves the Frame Store, isPlaying, the rate
\* and the Live Frame as they were.
C8_GallerySelectsAtomically ==
    [][\A index \in 0..(MaxFrames - 1) :
          GalleryClick(index) =>
              /\ currentImageIndex' = index
              /\ viewMode' = "timeline"
              /\ UNCHANGED <<images, isPlaying, playbackSpeed, liveImage>>]_vars

\* The image of index 2 has just been selected in the gallery.
C8_Witness ==
    /\ lastOp = "galleryClick"
    /\ currentImageIndex = 2
    /\ viewMode = "timeline"

\* A step of one of the manual cursor controls.
CursorControl ==
    \/ JumpFirst
    \/ StepBack
    \/ StepForward
    \/ JumpLast
    \/ \E r \in SeekRequests : Seek(r)

\* C9: the manual cursor controls match their reference formulas: first
\* gives 0, back max(0, c - 1), forward min(length - 1, c + 1), last
\* length - 1, seek(r) clamp(r, 0, length - 1); the handlers of back and
\* forward leave the Cursor at 0 and at length - 1; none of them changes
\* mode, isPlaying, the rate or the store.
C9_CursorControls ==
    [][LET c == currentImageIndex
           n == Len(images)
       IN  /\ JumpFirst => currentImageIndex' = 0
           /\ StepBack => currentImageIndex' = (IF c - 1 < 0 THEN 0 ELSE c - 1)
           /\ StepForward =>
                currentImageIndex' = (IF c + 1 > n - 1 THEN n - 1 ELSE c + 1)
           /\ JumpLast => currentImageIndex' = n - 1
           /\ \A r \in SeekRequests :
                Seek(r) =>
                    currentImageIndex' =
                        (IF r < 0 THEN 0 ELSE IF r > n - 1 THEN n - 1 ELSE r)
           /\ n >= 1 => StepBackIndex(0) = 0 /\ StepForwardIndex(n - 1, n) = n - 1
           /\ CursorControl =>
                UNCHANGED <<viewMode, isPlaying, playbackSpeed, images>>]_vars

\* The Previous button has just brought the Cursor of a three-frame store
\* to 0.
C9_Witness ==
    /\ lastOp = "stepBack"
    /\ Len(images) = 3
    /\ currentImageIndex = 0

\* C10: a successful fetchLiveImage sets the Live Frame to the frame the
\* server answered; a failed one leaves it as it was; neither changes the
\* Frame Store, the Cursor, mode, isPlaying, loading or error.
C10_LiveLoad ==
    [][/\ \A data \in LiveFrames :
             FetchLiveImageOk(data) => liveImage' = data
       /\ \A st \in Failures :
             FetchLiveImageFailed(st) => liveImage' = liveImage
       /\ ((\E data \in LiveFrames : FetchLiveImageOk(data))
             \/ (\E st \in Failures : FetchLiveImageFailed(st)))
            => UNCHANGED <<images, currentImageIndex, viewMode, isPlaying,
                           loading, error>>]_vars

\* A fetchLiveImage has just failed with a Live Frame of an earlier fetch
\* in place, and no error is set.
C10_Witness ==
    /\ lastOp = "fetchLiveImageFailed"
    /\ liveImage # NoImage
    /\ error = Null

\* The playback intervals armed.
PlaybackIntervals == {t \in intervals : t.kind = "playback"}

\* C11: the Scheduler is never armed while the Frame Store is empty, and
\* isPlaying with mode = timeline never holds together with an empty store.
C11_NotArmedOnEmptyStore ==
    /\ SchedulerRunning => Len(images) > 0
    /\ \A t \in PlaybackIntervals : t.len > 0
    /\ ~(isPlaying /\ viewMode = "timeline" /\ images = <<>>)

\* Play has just armed the Scheduler on a store of one frame.
C11_Witness ==
    /\ lastOp = "togglePlayback"
    /\ SchedulerRunning
    /\ Len(images) = 1

\* C12 as stated: every step in which the Scheduler or the Poller goes from
\* disarmed to armed or from armed to disarmed changes mode.
C12_Original ==
    [][(SchedulerRunning' # SchedulerRunning \/ PollerRunning' # PollerRunning)
          => viewMode' # viewMode]_vars

\* C12 as amended: the Poller starts or stops only in a step that changes
\* mode; the Scheduler starts or stops only in a step that changes mode or
\* isPlaying.
C12_StartStopByModeOrPlaying ==
    [][/\ PollerRunning' # PollerRunning => viewMode' # viewMode
       /\ SchedulerRunning' # SchedulerRunning =>
              (viewMode' # viewMode \/ isPlaying' # isPlaying)]_vars

\* Play has just started the Scheduler with mode unchanged.
C12_Witness ==
    /\ lastOp = "togglePlayback"
    /\ isPlaying
    /\ SchedulerRunning
    /\ ~PollerRunning

\* C13: at most one playback interval and at most one live interval is
\* armed, and every armed interval is the one its ref holds, so none is
\* left running unreferenced.
C13_AtMostOneTimerEach ==
    /\ Cardinality(PlaybackIntervals) <= 1
    /\ Cardinality(LiveIntervals) <= 1
    /\ \A t \in PlaybackIntervals : t.id = playbackIntervalRef
    /\ \A t \in LiveIntervals : t.id = liveIntervalRef

\* The Scheduler has been armed again with the ref holding an earlier
\* interval's id before: exactly one interval is armed.
C13_Witness ==
    /\ SchedulerRunning
    /\ playbackIntervalRef > 1
    /\ liveIntervalRef # NoTimer
    /\ Cardinality(intervals) = 1
    /\ pendingEffects = {}

C15_RateChangeRetimes ==
    [][/\ \A s \in SpeedChoices, drag \in BOOLEAN :
              (SetPlaybackSpeed(s, drag) /\ SchedulerRunning) =>
                  /\ playbackSpeed' = s
                  /\ isPlaying'
                  /\ SchedulerRunning'
                  /\ UNCHANGED <<currentImageIndex, viewMode, images>>
       /\ (FlushEffects /\ SchedulerRunning) => SchedulerRunning'
       /\ pendingEffects' = {} =>
              \A t \in PlaybackIntervals' : t.ms * playbackSpeed' = 2000
       /\ playbackSpeed' \in MinSpeed..MaxSpeed]_vars

\* The rate has just been set to its maximum while the Scheduler was
\* running at another rate: it runs with the period of 10 fps.
C15_Witness ==
    /\ lastOp = "setPlaybackSpeed"
    /\ pendingEffects = {}
    /\ playbackSpeed = MaxSpeed
    /\ isPlaying
    /\ \E t \in PlaybackIntervals : t.ms = 100

\* C16: an answer is applied whatever mode is when it arrives and whatever
\* the order the calls were issued in: a successful fetchLiveImage sets
\* the Live Frame to its frame also outside live mode and also when a call
\* issued after it has been answered before it, a successful fetchImages
\* sets the Frame Store; a call leaves the calls in flight only by its own
\* continuation, never by a change of mode.
C16_LateAnswersApplied ==
    [][/\ \A data \in LiveFrames : FetchLiveImageOk(data) => liveImage' = data
       /\ \A data \in Listings : FetchImagesOk(data) => images' = data
       /\ liveCalls' < liveCalls =>
              \/ \E data \in LiveFrames : FetchLiveImageOk(data)
              \/ \E st \in Failures : FetchLiveImageFailed(st)
       /\ imagesCalls' < imagesCalls =>
              \/ \E data \in Listings : FetchImagesOk(data)
              \/ \E st \in Failures : FetchImagesFailed(st)
       /\ viewMode' # viewMode =>
              liveCalls' >= liveCalls /\ imagesCalls' = imagesCalls]_vars

\* Outside live mode, the answer of a fetchLiveImage that a later call had
\* overtaken has just arrived, last of all, and set the Live Frame.
C16_Witness ==
    /\ lastOp = "fetchLiveImageOkLate"
    /\ viewMode # "live"
    /\ liveCalls = 0
    /\ liveImage # NoImage

\* A step that runs the playback effect again while the Scheduler runs and
\* leaves it running: the rate or the store length changed and the effect
\* ran in the same step, or the pending playback effect is run.
Retimed ==
    /\ SchedulerRunning
    /\ SchedulerRunning'
    /\ \/ /\ pendingEffects' = {}
          /\ (playbackSpeed' # playbackSpeed \/ Len(images') # Len(images))
       \/ FlushEffects /\ "playback" \in pendingEffects

\* C17: when the Scheduler is retimed the interval armed before is torn
\* down and exactly one is armed, with the period 1000 / rate of the new
\* rate and the current store length, and with none of its period elapsed,
\* whatever had elapsed of the old one; an interval fires only once its
\* whole period has elapsed since it was armed or fired last, so no tick
\* comes earlier than 1000 / rate ms after a retime.
C17_RetimeRestartsPeriod ==
    [][/\ Retimed =>
              /\ Cardinality(PlaybackIntervals') = 1
              /\ \A t \in PlaybackIntervals' :
                     /\ ~t.elapsed
                     /\ t.ms * playbackSpeed' = 2000
                     /\ t.len = Len(images')
       /\ \A t \in intervals : PlaybackTick(t) => t.elapsed
       /\ \A t \in intervals' :
              (t.elapsed /\ t \notin intervals) =>
                  PeriodElapses([t EXCEPT !.elapsed = FALSE])]_vars

\* The playback effect scheduled by a drag to the lowest rate has just run
\* while the Scheduler was running: the new interval has the period of 0.5
\* fps and none of it has elapsed.
C17_Witness ==
    /\ lastOp = "flushEffects"
    /\ playbackSpeed = MinSpeed
    /\ \E t \in PlaybackIntervals : t.ms = 2000 /\ ~t.elapsed

\* The loading flag and the Retry button against the fetchImages calls in
\* flight.
LoadInFlight ==
    /\ imagesCalls <= 1
    /\ loading <=> (imagesCalls = 1 \/ "mount" \in pendingEffects)
    /\ RetryRendered =>
           (~loading /\ error # Null /\ images = <<>> /\ imagesCalls = 0)

\* C18 as stated: at most one fetchImages is in flight, and loading is true
\* exactly while one is in flight.
C18_Original ==
    /\ imagesCalls <= 1
    /\ loading <=> imagesCalls = 1

\* C18 as amended: at most one fetchImages is in flight; loading is true
\* exactly while one is in flight or the mount effect that issues the first
\* has not run yet; a fetchImages is issued only by the mount effect and by
\* Retry; Retry is rendered only with loading false, the error set, the
\* store empty and no fetchImages in flight.
C18_SingleLoad ==
    /\ LoadInFlight
    /\ [][/\ LoadInFlight'
          /\ imagesCalls' > imagesCalls =>
                 \/ FlushEffects /\ "mount" \in pendingEffects
                 \/ Retry]_vars

\* Retry has just issued the second load: it is the one in flight, and
\* loading is true.
C18_Witness ==
    /\ lastOp = "retry"
    /\ loading
    /\ imagesCalls = 1
    /\ error = Null

\* C19: once the Frame Store is non-empty no step changes it and no
\* fetchImages is in flight or issued; the store length does not change
\* while the Scheduler runs; mode, isPlaying, the rate and the Cursor change
\* only in states with a non-empty store.
C19_StoreLoadedOnce ==
    [][/\ images # <<>> =>
              /\ images' = images
              /\ imagesCalls = 0
              /\ imagesCalls' = 0
       /\ SchedulerRunning => Len(images') = Len(images)
       /\ (\/ viewMode' # viewMode
           \/ isPlaying' # isPlaying
           \/ playbackSpeed' # playbackSpeed
           \/ currentImageIndex' # currentImageIndex) => images # <<>>]_vars

\* With the store loaded, the user has visited live mode, come back and
\* played: a tick has moved the Cursor and the store is as it was loaded.
C19_Witness ==
    /\ lastOp = "playbackTick"
    /\ images = Listing(2)
    /\ currentImageIndex = 1
    /\ liveImage # NoImage

\* C20: a non-null error implies an empty Frame Store, and no fetchImages
\* is in flight once the store is non-empty, so none can fail then.
C20_ErrorOnlyWithEmptyStore ==
    /\ error # Null => images = <<>>
    /\ images # <<>> => (error = Null /\ imagesCalls = 0)

\* A load has failed and the error card is shown over an empty store, with
\* no timer armed.
C20_Witness ==
    /\ error # Null
    /\ RetryRendered
    /\ images = <<>>
    /\ intervals = {}
    /\ pendingEffects = {}

====
